---- MODULE Spec2Model ----
(***************************************************************************)
(* The tab-match state machine of crates/harpoon/src/harpoon.rs: the       *)
(* HarpoonDelegate picker delegate (selection preview, confirm, dismiss),  *)
(* the Toggle / ToggleAll workspace actions, and the workspace panes the   *)
(* delegate acts on.  Indices are 0-based as in the source; a sequence s   *)
(* is read at s[i + 1].                                                    *)
(***************************************************************************)
EXTENDS Integers, Sequences, FiniteSets

\* ---------------------------------------------------------------- bounds
NumPanes == 2
NumItems == 3
NumQueries == 2
MaxCalls == 2

Panes == 1..NumPanes
Items == 1..NumItems
\* query 0 is the empty query
Queries == 0..NumQueries
\* indices handed to set_selected_index / close_item_at; NumItems is never valid
Indices == 0..NumItems

VARIABLES
    panes,            \* workspace: pane -> [items, active, permanent, live];
                      \* permanent: the last activate_item on the pane was a permanent one
    active_modal,     \* workspace.active_modal::<Harpoon>() is Some
    is_all_panes,     \* HarpoonDelegate.is_all_panes
    pane,             \* HarpoonDelegate.pane (the pane the popup was opened from)
    matches,          \* HarpoonDelegate.matches
    selected_index,   \* HarpoonDelegate.selected_index
    original_items,   \* HarpoonDelegate.original_items
    restored_items,   \* HarpoonDelegate.restored_items
    dismiss_events,   \* DismissEvents emitted and not yet handled by the host
    query,            \* the query last handed to update_matches
    \* history variables (not program state)
    list_query,       \* the query whose recomputation last wrote matches
    orig_tab,         \* pane -> tab that was active when the popup opened (0: none)
    calls,            \* confirm (with a match) / dismissed calls on this popup, in order
    restore_runs,     \* how many times the restore loop ran on this popup
    only_selections   \* since open, panes/matches were touched by selection changes only

vars == <<panes, active_modal, is_all_panes, pane, matches, selected_index,
          original_items, restored_items, dismiss_events, query,
          list_query, orig_tab, calls, restore_runs, only_selections>>

popup_vars == <<is_all_panes, pane, matches, selected_index, original_items,
                restored_items, dismiss_events, query>>
hist_vars == <<list_query, orig_tab, calls, restore_runs, only_selections>>

\* ---------------------------------------------------------------- helpers
Max(a, b) == IF a >= b THEN a ELSE b
Min(a, b) == IF a <= b THEN a ELSE b

RemoveAt(s, i) == [j \in 1..(Len(s) - 1) |-> IF j < i THEN s[j] ELSE s[j + 1]]

RECURSIVE Concat(_, _)
\* f[1] \o f[2] \o ... \o f[n]
Concat(f, n) == IF n = 0 THEN <<>> ELSE Concat(f, n - 1) \o f[n]

\* ---------------------------------------------------------------- Pane
\* Pane::index_for_item: Some(index) or None (-1)
IndexForItem(items, item) ==
    IF \E j \in 1..Len(items) : items[j] = item
    THEN (CHOOSE j \in 1..Len(items) : items[j] = item) - 1
    ELSE -1

\* Pane::activate_item(index, permanent, focus): out-of-range index is a no-op
ActivateItem(ps, p, index, permanent) ==
    IF index >= 0 /\ index < Len(ps[p].items)
    THEN [ps EXCEPT ![p].active = index, ![p].permanent = permanent]
    ELSE ps

\* Pane::close_item(index): the tab leaves the strip; the active index follows
\* the tab it pointed at, or the neighbour when the active tab itself closed
CloseItem(ps, p, index) ==
    LET old == ps[p]
        n == Len(old.items) - 1
        act == IF index < old.active THEN old.active - 1
               ELSE Max(0, Min(old.active, n - 1))
    IN [ps EXCEPT ![p].items = RemoveAt(old.items, index + 1), ![p].active = act]

\* the tab shown in pane p (0 when the pane has no tab)
ActiveTab(ps, p) ==
    IF ps[p].active < Len(ps[p].items) THEN ps[p].items[ps[p].active + 1] ELSE 0

\* ---------------------------------------------------------------- snapshot
\* panes in scope: every live pane, or the pane the popup was opened from
ScopePanes(ps, all, from) ==
    IF all THEN {p \in Panes : ps[p].live} ELSE {from}

PaneMatches(ps, p) ==
    [j \in 1..Len(ps[p].items) |->
        [pane |-> p, item_index |-> j - 1, item |-> ps[p].items[j]]]

\* baseline order: pane order, then item order within the pane
Enumerate(ps, all, from) ==
    Concat([p \in Panes |-> IF p \in ScopePanes(ps, all, from)
                            THEN PaneMatches(ps, p) ELSE <<>>], NumPanes)

\* (pane, active index) per pane in scope
CaptureOriginalItems(ps, all, from) ==
    Concat([p \in Panes |-> IF p \in ScopePanes(ps, all, from)
                            THEN << <<p, ps[p].active>> >> ELSE <<>>], NumPanes)

\* ---------------------------------------------------------------- scoring
MaxScore == 2
\* the fuzzy matcher: 0 rejects the candidate
Score(item, q) == IF item = q THEN 0 ELSE 1 + ((item + q + 1) % MaxScore)

\* descending score, ties in baseline order
ComputeMatches(ps, all, from, q) ==
    LET base == Enumerate(ps, all, from)
    IN IF q = 0 THEN base
       ELSE Concat([k \in 1..MaxScore |->
                      SelectSeq(base, LAMBDA m : Score(m.item, q) = MaxScore + 1 - k)],
                   MaxScore)

\* ---------------------------------------------------------------- update_matches
\* HarpoonDelegate::update_matches (inherent): the list is rebuilt from the open
\* tabs in scope and the selection is clamped to 0
RebuiltMatches(q) == ComputeMatches(panes, is_all_panes, pane, q)

\* bug variant: the list is rebuilt for the query of the previous call
AppliedQuery_stale(q) == query

\* bug variant: raw_query is dropped and the list is rebuilt for the empty query
AppliedQuery_empty(q) == 0

\* self.update_matches(raw_query, window, cx): the query the list is rebuilt for
AppliedQuery(q) == q

\* ---------------------------------------------------------------- delegate helpers
\* self.matches.get(self.selected_index()) is Some
HasSelectedMatch(ix) == ix >= 0 /\ ix < Len(matches)

\* for (pane, index) in self.original_items.iter() { pane.activate_item(index, false, false) }
RECURSIVE RestoreFrom(_, _)
RestoreFrom(ps, k) ==
    IF k > Len(original_items) THEN ps
    ELSE RestoreFrom(ActivateItem(ps, original_items[k][1], original_items[k][2], FALSE), k + 1)

RestoreOriginalItems(ps) == RestoreFrom(ps, 1)

\* bug variant: the index stored in the entry is activated, the tab is not looked up
ActivateMatch_by_snapshot_index(ps, m, permanent) ==
    IF ~ps[m.pane].live THEN ps
    ELSE ActivateItem(ps, m.pane, m.item_index, permanent)

\* bug variant: when the tab is gone from the pane, the stored index is activated
ActivateMatch_fallback(ps, m, permanent) ==
    IF ~ps[m.pane].live THEN ps
    ELSE LET index == IndexForItem(ps[m.pane].items, m.item)
         IN ActivateItem(ps, m.pane, IF index >= 0 THEN index ELSE m.item_index,
                         permanent)

\* selected_match.pane.update(|pane| if let Some(index) = pane.index_for_item(item)
\*     { pane.activate_item(index, permanent, permanent) }).ok()
ActivateMatch(ps, m, permanent) ==
    IF ~ps[m.pane].live THEN ps
    ELSE LET index == IndexForItem(ps[m.pane].items, m.item)
         IN IF index >= 0 THEN ActivateItem(ps, m.pane, index, permanent) ELSE ps

\* set_selected_index: the panes after the call
PreviewPanes(ps, ix) ==
    IF HasSelectedMatch(ix) THEN ActivateMatch(ps, matches[ix + 1], FALSE) ELSE ps

\* set_selected_index: self.selected_index = ix, before the match is looked up
SelectedIndexAfterSet(ix) == ix

\* bug variant: the selected match is activated before the restore loop runs
ConfirmPanes_restore_last(ps) ==
    RestoreOriginalItems(ActivateMatch(ps, matches[selected_index + 1], TRUE))

\* confirm: restore every pane, then activate the selected match permanently
ConfirmPanes(ps) ==
    ActivateMatch(RestoreOriginalItems(ps), matches[selected_index + 1], TRUE)

\* confirm: the panes as they stand after the restore loop, and after the
\* activation that follows it
ConfirmSteps(ps) == <<RestoreOriginalItems(ps), ConfirmPanes(ps)>>

\* bug variant: the flag is set before the early return
RestoredAfterConfirm_eager(has_match) == TRUE

\* bug variant: a confirm on a match flips the flag
RestoredAfterConfirm_flip(has_match) ==
    IF has_match THEN ~restored_items ELSE restored_items

\* confirm: self.restored_items after the call
RestoredAfterConfirm(has_match) == IF has_match THEN TRUE ELSE restored_items

\* bug variant: the record is drained instead of iterated
OriginalItemsAfterTerminal_drained == <<>>

\* confirm and dismissed only iterate self.original_items
OriginalItemsAfterTerminal == original_items

\* bug variant: the guard is inverted
DismissedRestores_inverted == restored_items

\* bug variant: the guard is missing
DismissedRestores_always == TRUE

\* dismissed: the restore loop runs only when restored_items is false
DismissedRestores == ~restored_items

\* dismissed: DismissEvents emitted by one call (emitted on both paths)
DismissedEmits == 1

\* ---------------------------------------------------------------- initial state
\* items 1..NumItems laid out over the panes in order, pane 1 never empty
Layouts == {f \in [Items -> Panes] :
              /\ f[1] = 1
              /\ \A i \in Items : i > 1 => f[i] >= f[i - 1]}

LayoutItems(f, p) == SelectSeq([i \in Items |-> i], LAMBDA i : f[i] = p)

NoOrigTab == [p \in Panes |-> 0]

Init ==
    /\ \E f \in Layouts :
         \E act \in [Panes -> 0..(NumItems - 1)] :
            /\ \A p \in Panes : act[p] < Max(1, Len(LayoutItems(f, p)))
            /\ panes = [p \in Panes |->
                          [items |-> LayoutItems(f, p), active |-> act[p],
                           permanent |-> FALSE, live |-> TRUE]]
    /\ active_modal = FALSE
    /\ is_all_panes = FALSE
    /\ pane = 1
    /\ matches = <<>>
    /\ selected_index = 0
    /\ original_items = <<>>
    /\ restored_items = FALSE
    /\ dismiss_events = 0
    /\ query = 0
    /\ list_query = 0
    /\ orig_tab = NoOrigTab
    /\ calls = <<>>
    /\ restore_runs = 0
    /\ only_selections = TRUE

\* ---------------------------------------------------------------- open / toggle
\* Harpoon::open: snapshot of the panes in scope, popup becomes the active modal
open(all, from) ==
    /\ active_modal' = TRUE
    /\ is_all_panes' = all
    /\ pane' = from
    /\ matches' = Enumerate(panes, all, from)
    /\ selected_index' = 0
    /\ original_items' = CaptureOriginalItems(panes, all, from)
    /\ restored_items' = FALSE
    /\ dismiss_events' = 0
    /\ query' = 0
    /\ list_query' = 0
    /\ orig_tab' = [p \in Panes |-> IF p \in ScopePanes(panes, all, from)
                                    THEN ActiveTab(panes, p) ELSE 0]
    /\ calls' = <<>>
    /\ restore_runs' = 0
    /\ only_selections' = TRUE
    /\ UNCHANGED panes

\* the whole of HarpoonDelegate::set_selected_index, as called with index ix
SetSelected(ix) ==
    /\ selected_index' = SelectedIndexAfterSet(ix)
    /\ panes' = PreviewPanes(panes, ix)
    /\ UNCHANGED <<active_modal, is_all_panes, pane, matches, original_items,
                   restored_items, dismiss_events, query>>
    /\ UNCHANGED hist_vars

\* Picker::cycle_selection: next index, wrapping; nothing to cycle in an empty list
cycle_selection ==
    IF Len(matches) = 0
    THEN UNCHANGED <<panes, active_modal, popup_vars, hist_vars>>
    ELSE SetSelected((selected_index + 1) % Len(matches))

\* bug variant: the active modal is not looked up, a popup is opened every time
OpensPopup_always == TRUE

\* let Some(harpoon) = workspace.active_modal::<Harpoon>(cx) else { Self::open(..) }
OpensPopup == ~active_modal

\* workspace.register_action(|workspace, action: &Toggle, ..|)
Toggle ==
    /\ IF OpensPopup
       THEN \E from \in {p \in Panes : panes[p].live} : open(FALSE, from)
       ELSE cycle_selection

\* workspace.register_action(|workspace, _action: &ToggleAll, ..|)
ToggleAll ==
    /\ IF OpensPopup
       THEN \E from \in {p \in Panes : panes[p].live} : open(TRUE, from)
       ELSE cycle_selection

\* ---------------------------------------------------------------- delegate operations
set_selected_index(ix) ==
    /\ active_modal
    /\ SetSelected(ix)

\* PickerDelegate::update_matches: the inherent update_matches runs to completion
\* inside the call and the task handed back is Task::ready(())
update_matches(q) ==
    /\ active_modal
    /\ matches' = RebuiltMatches(AppliedQuery(q))
    /\ selected_index' = 0
    /\ list_query' = AppliedQuery(q)
    /\ query' = q
    /\ only_selections' = FALSE
    /\ UNCHANGED <<panes, active_modal, is_all_panes, pane, original_items,
                   restored_items, dismiss_events>>
    /\ UNCHANGED <<orig_tab, calls, restore_runs>>

confirm ==
    /\ active_modal
    /\ LET has_match == HasSelectedMatch(selected_index)
       IN /\ restored_items' = RestoredAfterConfirm(has_match)
          /\ IF has_match
             THEN /\ Len(calls) < MaxCalls
                  /\ panes' = ConfirmPanes(panes)
                  /\ original_items' = OriginalItemsAfterTerminal
                  /\ calls' = Append(calls, "confirm")
                  /\ restore_runs' = restore_runs + 1
             ELSE UNCHANGED <<panes, original_items, calls, restore_runs>>
    /\ UNCHANGED <<active_modal, is_all_panes, pane, matches, selected_index,
                   dismiss_events, query>>
    /\ UNCHANGED <<list_query, orig_tab, only_selections>>

dismissed ==
    /\ active_modal
    /\ Len(calls) < MaxCalls
    /\ IF DismissedRestores
       THEN /\ panes' = RestoreOriginalItems(panes)
            /\ restore_runs' = restore_runs + 1
       ELSE UNCHANGED <<panes, restore_runs>>
    /\ original_items' = OriginalItemsAfterTerminal
    /\ dismiss_events' = dismiss_events + DismissedEmits
    /\ calls' = Append(calls, "dismissed")
    /\ UNCHANGED <<active_modal, is_all_panes, pane, matches, selected_index,
                   restored_items, query>>
    /\ UNCHANGED <<list_query, orig_tab, only_selections>>

\* bug variant: the last entry is dropped whatever ix is
MatchesAfterClose_last(ix) == SubSeq(matches, 1, Len(matches) - 1)

\* close_item_at: the list without its entry ix
MatchesAfterClose(ix) == RemoveAt(matches, ix + 1)

\* HarpoonDelegate::close_item_at: out-of-range ix is a no-op
close_item_at(ix) ==
    /\ active_modal
    /\ IF ~HasSelectedMatch(ix)
       THEN UNCHANGED <<panes, matches, selected_index, only_selections>>
       ELSE LET m == matches[ix + 1]
                index == IF panes[m.pane].live
                         THEN IndexForItem(panes[m.pane].items, m.item) ELSE -1
            IN /\ panes' = IF index >= 0 THEN CloseItem(panes, m.pane, index) ELSE panes
               /\ matches' = MatchesAfterClose(ix)
               /\ selected_index' = IF selected_index >= Len(matches) - 1
                                    THEN Max(0, Len(matches) - 2)
                                    ELSE selected_index
               /\ only_selections' = FALSE
    /\ UNCHANGED <<active_modal, is_all_panes, pane, original_items,
                   restored_items, dismiss_events, query>>
    /\ UNCHANGED <<list_query, orig_tab, calls, restore_runs>>

\* ---------------------------------------------------------------- environment
\* the hosting container handles DismissEvent: the modal is hidden and dropped
HostDismiss ==
    /\ active_modal
    /\ dismiss_events > 0
    /\ active_modal' = FALSE
    /\ is_all_panes' = FALSE
    /\ pane' = 1
    /\ matches' = <<>>
    /\ selected_index' = 0
    /\ original_items' = <<>>
    /\ restored_items' = FALSE
    /\ dismiss_events' = 0
    /\ query' = 0
    /\ list_query' = 0
    /\ orig_tab' = NoOrigTab
    /\ calls' = <<>>
    /\ restore_runs' = 0
    /\ only_selections' = TRUE
    /\ UNCHANGED panes

\* unrelated workspace activity closes a tab
ExternalCloseItem(p, index) ==
    /\ panes[p].live
    /\ index < Len(panes[p].items)
    /\ panes' = CloseItem(panes, p, index)
    /\ only_selections' = FALSE
    /\ UNCHANGED <<active_modal, popup_vars>>
    /\ UNCHANGED <<list_query, orig_tab, calls, restore_runs>>

\* strong handles the popup holds: the panes of original_items
HeldPanes == {original_items[k][1] : k \in 1..Len(original_items)}

\* the workspace drops a pane nothing else holds; its weak handles go stale
ReleasePane(p) ==
    /\ panes[p].live
    /\ p \notin HeldPanes
    /\ \E other \in Panes : other # p /\ panes[other].live
    /\ panes' = [panes EXCEPT ![p] = [items |-> <<>>, active |-> 0,
                                      permanent |-> FALSE, live |-> FALSE]]
    /\ only_selections' = FALSE
    /\ UNCHANGED <<active_modal, popup_vars>>
    /\ UNCHANGED <<list_query, orig_tab, calls, restore_runs>>

Next ==
    \/ Toggle
    \/ ToggleAll
    \/ \E ix \in Indices : set_selected_index(ix)
    \/ \E q \in Queries : update_matches(q)
    \/ confirm
    \/ dismissed
    \/ \E ix \in Indices : close_item_at(ix)
    \/ HostDismiss
    \/ \E p \in Panes : \E index \in 0..(NumItems - 1) : ExternalCloseItem(p, index)
    \/ \E p \in Panes : ReleasePane(p)

Spec == Init /\ [][Next]_vars

\* ---------------------------------------------------------------- properties
SelectedMatch == matches[selected_index + 1]

\* every pane of the original-items record shows the tab it showed at open
AllRestored(ps) == \A p \in HeldPanes : ActiveTab(ps, p) = orig_tab[p]

\* C1: dismissed() with no confirm before it, after selection changes only,
\* leaves every pane of the original-items record on the tab that was active
\* in it when the popup opened.
C1_DismissRestores ==
    [][(dismissed /\ calls = <<>> /\ only_selections) => AllRestored(panes')]_vars

\* C1 case: index 2 was selected (previewing a tab that was not the active one
\* of its pane), then the popup was dismissed and every pane is back
C1_Witness ==
    /\ active_modal /\ only_selections /\ calls = <<"dismissed">>
    /\ selected_index = 2 /\ Len(matches) = 3
    /\ orig_tab[matches[3].pane] # matches[3].item
    /\ AllRestored(panes)

\* C2: confirm() with a selected match, after selection changes only: the
\* confirmed tab is the active tab of its pane, activated permanently, and
\* every other pane of the original-items record shows its pre-popup tab.
C2_ConfirmActivates ==
    [][(confirm /\ HasSelectedMatch(selected_index) /\ calls = <<>> /\ only_selections)
        => /\ ActiveTab(panes', SelectedMatch.pane) = SelectedMatch.item
           /\ panes'[SelectedMatch.pane].permanent
           /\ \A p \in HeldPanes \ {SelectedMatch.pane} :
                 ActiveTab(panes', p) = orig_tab[p]]_vars

\* C2 case: a tab was confirmed in one pane while another pane of the record,
\* holding several tabs, shows its pre-popup tab
C2_Witness ==
    /\ active_modal /\ only_selections /\ calls = <<"confirm">>
    /\ HasSelectedMatch(selected_index)
    /\ ActiveTab(panes, SelectedMatch.pane) = SelectedMatch.item
    /\ panes[SelectedMatch.pane].permanent
    /\ \E p \in HeldPanes \ {SelectedMatch.pane} :
          Len(panes[p].items) > 1 /\ ActiveTab(panes, p) = orig_tab[p]

\* C3: over one popup's terminal calls (dismissed() repeated, or confirm()
\* followed by dismissed()), the restore loop runs at most once in total.
C3_RestoreAtMostOnce ==
    (\A k \in 2..Len(calls) : calls[k] = "dismissed") => restore_runs <= 1

\* C4: whenever the match list is non-empty, selected_index addresses a match.
C4_SelectedIndexValid ==
    (active_modal /\ Len(matches) > 0) => selected_index < Len(matches)

\* C5: between open and the popup's removal no operation changes the
\* original-items record.
C5_OriginalItemsFrozen ==
    [][(active_modal /\ active_modal') => original_items' = original_items]_vars

\* C5 case: selection, list and terminal operations have all run on a popup
\* whose record still holds the indices captured at open
C5_Witness ==
    /\ active_modal /\ ~only_selections /\ calls = <<"confirm", "dismissed">>
    /\ Len(original_items) = NumPanes
    /\ \E k \in 1..Len(original_items) :
          panes[original_items[k][1]].active # original_items[k][2]

\* C6: once confirm() or dismissed() has run on a popup, a later confirm() or
\* dismissed() changes neither the panes nor the popup's state.
C6_TerminalIsFinal ==
    [][(calls # <<>> /\ (confirm \/ dismissed))
        => UNCHANGED <<panes, restored_items, matches, selected_index>>]_vars

\* C7 (as claimed): dismissed() after confirm set the flag changes no pane and
\* sends no dismissal signal.
C7_DismissAfterConfirmSilent ==
    [][(dismissed /\ restored_items)
        => (panes' = panes /\ dismiss_events' = dismiss_events)]_vars

\* C7 (amended): dismissed() after confirm set the flag changes no pane and
\* does not run the restore loop, which runs only when the flag is false; the
\* dismissal signal is sent on both paths.
C7_DismissAfterConfirmKeepsPanes ==
    [][dismissed
        => /\ restored_items => (panes' = panes /\ restore_runs' = restore_runs)
           /\ restore_runs' # restore_runs => ~restored_items
           /\ dismiss_events' = dismiss_events + 1]_vars

\* C7 case: dismissed() ran after a confirm() that left a pane on a tab other
\* than its pre-popup one, and that pane still shows the confirmed tab
C7_Witness ==
    /\ active_modal /\ calls = <<"confirm", "dismissed">> /\ only_selections
    /\ restored_items /\ dismiss_events = 1 /\ restore_runs = 1
    /\ HasSelectedMatch(selected_index)
    /\ ActiveTab(panes, SelectedMatch.pane) = SelectedMatch.item
    /\ orig_tab[SelectedMatch.pane] # SelectedMatch.item

C9_OutOfRangeRejected ==
    [][\A ix \in Indices :
          (set_selected_index(ix) /\ ~HasSelectedMatch(ix))
            => UNCHANGED <<selected_index, matches, panes>>]_vars

Pos(s, m) == IF \E j \in 1..Len(s) : s[j] = m
             THEN CHOOSE j \in 1..Len(s) : s[j] = m ELSE 0

\* C11: after update_matches(q) the list holds exactly the open tabs in scope
\* that the scorer accepts for q, each once, in descending score with equal
\* scores in baseline order; for the empty query it is the baseline itself.
C11_MatchesFilteredAndOrdered ==
    [][\A q \in Queries : update_matches(q) =>
         LET base == Enumerate(panes', is_all_panes', pane')
             new == matches'
         IN IF q = 0 THEN new = base
            ELSE /\ \A j \in 1..Len(base) :
                      (Score(base[j].item, q) > 0) <=> (Pos(new, base[j]) > 0)
                 /\ \A k \in 1..Len(new) : Pos(base, new[k]) > 0
                 /\ \A k1, k2 \in 1..Len(new) : k1 < k2 =>
                      /\ new[k1] # new[k2]
                      /\ \/ Score(new[k1].item, q) > Score(new[k2].item, q)
                         \/ /\ Score(new[k1].item, q) = Score(new[k2].item, q)
                            /\ Pos(base, new[k1]) < Pos(base, new[k2])]_vars

\* C11 case: query 1 rejected tab 1 and put tab 3 ahead of tab 2, against the
\* baseline order of the three open tabs
C11_Witness ==
    /\ active_modal /\ query = 1 /\ list_query = 1
    /\ Len(Enumerate(panes, is_all_panes, pane)) = 3
    /\ Len(matches) = 2 /\ matches[1].item = 3 /\ matches[2].item = 2
    /\ Score(3, 1) > Score(2, 1) /\ Score(1, 1) = 0

\* the tabs of pane p, as a set
OpenTabs(ps, p) == {ps[p].items[j] : j \in 1..Len(ps[p].items)}

\* C12: close_item_at(ix) with a valid ix removes exactly entry ix (one entry
\* fewer, later entries one position down, earlier entries in place) and closes
\* that tab and no other; no tab comes back into a pane, every list built by
\* update_matches holds open tabs only, and without update_matches the list of
\* an open popup never grows.
C12_CloseRemovesExactlyOne ==
    [][/\ \A ix \in Indices : (close_item_at(ix) /\ HasSelectedMatch(ix)) =>
            LET m == matches[ix + 1]
            IN /\ Len(matches') = Len(matches) - 1
               /\ \A j \in 1..Len(matches) :
                    /\ j < ix + 1 => matches'[j] = matches[j]
                    /\ j > ix + 1 => matches'[j - 1] = matches[j]
               /\ \A p \in Panes :
                    /\ OpenTabs(panes', p) = OpenTabs(panes, p) \ {m.item}
                    /\ panes'[p].live = panes[p].live
       /\ \A p \in Panes : OpenTabs(panes', p) \subseteq OpenTabs(panes, p)
       /\ \A q \in Queries : update_matches(q) =>
            \A k \in 1..Len(matches') :
                matches'[k].item \in OpenTabs(panes', matches'[k].pane)
       /\ (active_modal /\ active_modal' /\ Len(matches') > Len(matches)) =>
            \E q \in Queries : update_matches(q)]_vars

\* C12 case: tab 1 was listed ahead of tab 2 in the same pane and has been
\* closed from the list: it is in no pane and in no entry, tab 2 moved up to the
\* head of the list and still has its index from the enumeration
C12_Witness ==
    /\ active_modal /\ query = 0 /\ list_query = 0
    /\ Len(matches) = 2
    /\ matches[1].item = 2 /\ matches[1].item_index = 1
    /\ matches[2].item = 3
    /\ \A p \in Panes : 1 \notin OpenTabs(panes, p)
    /\ IndexForItem(panes[matches[1].pane].items, 2) = 0

MatchIsOpen(ps, m) == ps[m.pane].live /\ m.item \in OpenTabs(ps, m.pane)

\* C14: set_selected_index(ix) on an entry whose pane is live and holds the tab
\* makes that tab, found by identity, the active tab of its pane, not
\* permanently; the pane's tabs, every other pane, the list, the restored flag
\* and the original-items record stay as they were.
C14_PreviewActivatesByIdentity ==
    [][\A ix \in Indices :
         (set_selected_index(ix) /\ HasSelectedMatch(ix)
            /\ MatchIsOpen(panes, matches[ix + 1])) =>
           LET m == matches[ix + 1]
           IN /\ ActiveTab(panes', m.pane) = m.item
              /\ ~panes'[m.pane].permanent
              /\ panes'[m.pane].items = panes[m.pane].items
              /\ \A p \in Panes \ {m.pane} : panes'[p] = panes[p]
              /\ selected_index' = ix
              /\ UNCHANGED <<matches, restored_items, original_items>>]_vars

\* C14 case: the selected entry's tab is shown, not permanently, in place of
\* the tab recorded at open, although a tab closed since the enumeration left
\* the entry's stored index pointing at another tab
C14_Witness ==
    /\ active_modal /\ calls = <<>> /\ HasSelectedMatch(selected_index)
    /\ MatchIsOpen(panes, SelectedMatch)
    /\ ActiveTab(panes, SelectedMatch.pane) = SelectedMatch.item
    /\ ~panes[SelectedMatch.pane].permanent
    /\ orig_tab[SelectedMatch.pane] # SelectedMatch.item
    /\ SelectedMatch.item_index < Len(panes[SelectedMatch.pane].items)
    /\ IndexForItem(panes[SelectedMatch.pane].items, SelectedMatch.item)
         # SelectedMatch.item_index

\* C15: set_selected_index(ix) on an entry whose pane is gone, or whose tab has
\* left the pane, sets selected_index to ix and changes no pane.
C15_PreviewOfStaleEntry ==
    [][\A ix \in Indices :
         (set_selected_index(ix) /\ HasSelectedMatch(ix)
            /\ ~MatchIsOpen(panes, matches[ix + 1])) =>
           /\ selected_index' = ix
           /\ panes' = panes
           /\ UNCHANGED <<matches, restored_items, original_items>>]_vars

\* C15 case: the third entry's tab was closed outside the popup and the entry
\* was selected afterwards: the pane still shows the tab recorded at open
C15_Witness ==
    /\ active_modal /\ calls = <<>>
    /\ Len(matches) = 3 /\ selected_index = 2
    /\ panes[matches[3].pane].live
    /\ matches[3].item \notin OpenTabs(panes, matches[3].pane)
    /\ Len(panes[matches[3].pane].items) = 2
    /\ ActiveTab(panes, matches[3].pane) = orig_tab[matches[3].pane]
    /\ ActiveTab(panes, matches[3].pane) = matches[1].item

\* pane p holds three tabs, its first tab A was the active one at open, only
\* selections have happened since, and the selected entry is its third tab C,
\* shown as the preview
SelectedThirdTab(p) ==
    /\ active_modal /\ only_selections /\ calls = <<>>
    /\ panes[p].live /\ Len(panes[p].items) = 3
    /\ orig_tab[p] = panes[p].items[1]
    /\ HasSelectedMatch(selected_index)
    /\ SelectedMatch.pane = p /\ SelectedMatch.item = panes[p].items[3]
    /\ ActiveTab(panes, p) = panes[p].items[3]

\* C16 as stated: confirm after selecting C leaves C active in P, permanently,
\* and at no step of confirm is A the active tab of P.
C16_ConfirmNeverShowsA ==
    [][\A p \in Panes : (confirm /\ SelectedThirdTab(p)) =>
         /\ ActiveTab(panes', p) = panes[p].items[3]
         /\ panes'[p].permanent
         /\ \A i \in 1..Len(ConfirmSteps(panes)) :
              ActiveTab(ConfirmSteps(panes)[i], p) # orig_tab[p]]_vars

\* C16: confirm after selecting C leaves C, not A, active in P, permanently;
\* inside confirm the restore loop first makes A the active tab of P again, not
\* permanently, and the activation of C follows it.
C16_ConfirmEndsOnC ==
    [][\A p \in Panes : (confirm /\ SelectedThirdTab(p)) =>
         /\ ActiveTab(panes', p) = panes[p].items[3]
         /\ ActiveTab(panes', p) # orig_tab[p]
         /\ panes'[p].permanent
         /\ panes' = ConfirmSteps(panes)[2]
         /\ ActiveTab(ConfirmSteps(panes)[1], p) = orig_tab[p]
         /\ ~ConfirmSteps(panes)[1][p].permanent]_vars

\* C16 case: confirm has run on the selected third tab of a pane of three whose
\* first tab was active at open; the third tab is shown, permanently
C16_Witness ==
    /\ active_modal /\ only_selections /\ calls = <<"confirm">> /\ restored_items
    /\ HasSelectedMatch(selected_index)
    /\ Len(panes[SelectedMatch.pane].items) = 3
    /\ orig_tab[SelectedMatch.pane] = panes[SelectedMatch.pane].items[1]
    /\ SelectedMatch.item = panes[SelectedMatch.pane].items[3]
    /\ ActiveTab(panes, SelectedMatch.pane) = SelectedMatch.item
    /\ panes[SelectedMatch.pane].permanent

\* C17: dismissed() with no confirm before it, after any selections and tab
\* closings, leaves every recorded pane on the tab that was active at open when
\* that tab is still open, and every stored index addresses a tab of its pane.
C17_RestoreByIdentity ==
    [][(dismissed /\ calls = <<>>) =>
         \A k \in 1..Len(original_items) :
            LET p == original_items[k][1]
                index == original_items[k][2]
            IN /\ orig_tab[p] \in OpenTabs(panes, p) =>
                    ActiveTab(panes', p) = orig_tab[p]
               /\ Len(panes[p].items) > 0 => index < Len(panes[p].items)]_vars

\* C18: confirm() on a selected entry whose pane is gone, or whose tab has left
\* the pane, sets the restored flag, runs the restoration, leaves every
\* recorded pane on the tab that was active at open when that tab is still
\* open, and activates nothing permanently; dismissed() after it restores
\* nothing.
C18_ConfirmOfStaleEntry ==
    [][/\ (confirm /\ HasSelectedMatch(selected_index)
             /\ ~MatchIsOpen(panes, SelectedMatch)) =>
            /\ restored_items'
            /\ restore_runs' = restore_runs + 1
            /\ \A p \in HeldPanes :
                 orig_tab[p] \in OpenTabs(panes, p) =>
                    ActiveTab(panes', p) = orig_tab[p]
            /\ panes' = ConfirmSteps(panes)[1]
            /\ \A p \in Panes : panes'[p].permanent => panes[p].permanent
       /\ (dismissed /\ restored_items) =>
            /\ restore_runs' = restore_runs
            /\ panes' = panes]_vars

\* C19: the restored flag of a popup is false when the popup opens, never goes
\* from true to false while the popup lives, changes only in a confirm() that
\* has a selected match, which leaves it true, and is left as it is by
\* set_selected_index, update_matches and dismissed().
C19_RestoredFlagSingleWriter ==
    [][/\ (~active_modal /\ active_modal') => ~restored_items'
       /\ (active_modal /\ active_modal') =>
            /\ restored_items => restored_items'
            /\ restored_items' # restored_items =>
                 (confirm /\ HasSelectedMatch(selected_index))
       /\ (confirm /\ HasSelectedMatch(selected_index)) => restored_items'
       /\ (\/ \E ix \in Indices : set_selected_index(ix)
           \/ \E q \in Queries : update_matches(q)
           \/ dismissed) => restored_items' = restored_items]_vars

\* C19 case: the flag was set by a confirm and is still set after a dismissed(),
\* with a query applied and a selection made after it
C19_Witness ==
    /\ active_modal /\ restored_items
    /\ calls = <<"confirm", "dismissed">>
    /\ query # 0 /\ selected_index > 0

====
